---- MODULE Spec2Model ----
(***************************************************************************)
(* Model of gravitational_wave_animation.py: the numeric helpers           *)
(* (_build_grid, _mass_positions, _wave_displacement_at,                   *)
(* _wave_deformation) and the control flow of main(): output directory,    *)
(* figure, the init/update frame callbacks, and the save of the animation  *)
(* through the FFMpeg writer.                                              *)
(*                                                                         *)
(* Floating-point numbers are modelled as signed fixed-point numbers with  *)
(* Scale units per 1.0.  Rounding is sign-symmetric (toward zero), as IEEE *)
(* rounding is symmetric under negation.                                   *)
(***************************************************************************)
EXTENDS Integers, Sequences, FiniteSets

VARIABLES pc, frame, axes, surface, masses, encoder, written, renders,
          stdout, dirExists, file, figure, failure, probe

vars == <<pc, frame, axes, surface, masses, encoder, written, renders,
          stdout, dirExists, file, figure, failure, probe>>

(***************************************************************************)
(* Fixed-point arithmetic                                                  *)
(***************************************************************************)

\* One limb of the fixed-point representation: Scale = Base * Base.
Base == 1000

Scale == Base * Base

Abs(a) == IF a < 0 THEN -a ELSE a

Sgn(a) == IF a < 0 THEN -1 ELSE 1

\* Integer quotient rounded to nearest, for n >= 0 and d > 0.
RoundDiv(n, d) == (n + (d \div 2)) \div d

\* A decimal literal n/d of the source as a fixed-point number.
Lit(n, d) == RoundDiv(n * Scale, d)

\* The exact product of two non-negative fixed-point numbers as
\* <<whole, rest>> with a * b = whole * Scale + rest and rest < Scale,
\* computed limb by limb so that no intermediate exceeds 31 bits.
MulParts(a, b) ==
    LET a1 == a \div Base
        a0 == a % Base
        b1 == b \div Base
        b0 == b % Base
        mid == (a1 * b0) + (a0 * b1) + ((a0 * b0) \div Base)
    IN  <<(a1 * b1) + (mid \div Base), ((mid % Base) * Base) + ((a0 * b0) % Base)>>

\* Product of two non-negative fixed-point numbers, rounded to nearest.
MulNat(a, b) ==
    LET p == MulParts(a, b)
    IN  p[1] + (IF 2 * p[2] >= Scale THEN 1 ELSE 0)

\* float * float
Mul(a, b) == Sgn(a) * Sgn(b) * MulNat(Abs(a), Abs(b))

\* float / n for a whole number n > 0
DivInt(a, n) == Sgn(a) * RoundDiv(Abs(a), n)

\* float / float for a divisor that is a whole number (every divisor of the
\* program is: ORBITAL_PERIOD, SPACE_EXTENT**2, GAUSSIAN_FALLOFF).
Div(a, b) == Sgn(b) * DivInt(a, Abs(b) \div Scale)

\* x ** 2
Sq(a) == Mul(a, a)

\* Upper limit of the square-root search: covers arguments up to 256.0.
SqrtLimit == 16 * Scale

\* y * y <= v, exactly
SqLeq(y, v) ==
    LET p == MulParts(y, y)
    IN  p[1] < v \/ (p[1] = v /\ p[2] = 0)

RECURSIVE SqrtSearch(_, _, _)
SqrtSearch(v, lo, hi) ==
    IF hi - lo <= 1 THEN lo
    ELSE LET mid == (lo + hi) \div 2
         IN  IF SqLeq(mid, v) THEN SqrtSearch(v, mid, hi)
             ELSE SqrtSearch(v, lo, mid)

\* np.sqrt: the largest fixed-point y with y * y <= v.
Sqrt(v) == SqrtSearch(v, 0, SqrtLimit)

\* np.pi
Pi == RoundDiv(355 * Scale, 113)

\* Number of terms of the power series used for sin and exp.
SeriesTerms == 12

\* x - x^3/3! + x^5/5! - ... ; term is the n-th term, k = 2n-1.
RECURSIVE SinSeries(_, _, _, _)
SinSeries(x2, term, k, n) ==
    IF n = 0 \/ term = 0 THEN 0
    ELSE term + SinSeries(x2, -DivInt(Mul(term, x2), (k + 1) * (k + 2)), k + 2, n - 1)

\* x reduced to (-Pi, Pi] by whole turns.
RECURSIVE ReduceTurn(_)
ReduceTurn(x) ==
    IF x > Pi THEN ReduceTurn(x - 2 * Pi)
    ELSE IF x <= -Pi THEN ReduceTurn(x + 2 * Pi)
    ELSE x

\* np.sin
Sin(x) ==
    LET r == ReduceTurn(x)
        h == IF 2 * r > Pi THEN Pi - r
             ELSE IF 2 * r < -Pi THEN -Pi - r
             ELSE r
    IN  Sgn(h) * SinSeries(Sq(h), Abs(h), 1, SeriesTerms)

\* np.cos
Cos(x) == Sin(x + DivInt(Pi, 2))

\* 1 + x + x^2/2! + ... ; term is the n-th term.
RECURSIVE ExpSeries(_, _, _, _)
ExpSeries(x, term, k, n) ==
    IF n = 0 \/ term = 0 THEN 0
    ELSE term + ExpSeries(x, DivInt(Mul(term, x), k), k + 1, n - 1)

\* np.exp, by the series on x/4 squared twice.
Exp(x) == Sq(Sq(ExpSeries(DivInt(x, 4), Scale, 1, 2 * SeriesTerms)))

(***************************************************************************)
(* Simulation constants                                                    *)
(***************************************************************************)

FPS == 30

DURATION == 12

TOTAL_FRAMES == FPS * DURATION

SPACE_EXTENT == Lit(6, 1)

GRID_POINTS == 60

WAVE_SPEED == Lit(1, 1)

WAVE_AMPLITUDE == Lit(6, 10)

WAVE_NUMBER == Lit(2, 1)

GAUSSIAN_FALLOFF == Lit(18, 1)

ORBITAL_RADIUS == Lit(14, 10)

ORBITAL_PERIOD == Lit(4, 1)

MASS_HEIGHT_OFFSET == Lit(9, 10)

\* The literal 1e-6 added to the radius.
Epsilon == Lit(1, 1000000)

(***************************************************************************)
(* Numeric helpers                                                         *)
(***************************************************************************)

\* Array indices (0-based, as in numpy).
Indices == 0 .. (GRID_POINTS - 1)

\* np.linspace(start, stop, num): arange(num) * step + start, with the last
\* sample set to stop.
linspace(start, stop, num) ==
    LET step == DivInt(stop - start, num - 1)
    IN  [k \in 0 .. (num - 1) |->
            IF k = num - 1 THEN stop ELSE Mul(k * Scale, step) + start]

\* np.meshgrid(xs, ys): X[j][i] = xs[i], Y[j][i] = ys[j].
meshgrid(xs, ys) ==
    <<[j \in DOMAIN ys |-> [i \in DOMAIN xs |-> xs[i]]],
      [j \in DOMAIN ys |-> [i \in DOMAIN xs |-> ys[j]]]>>

_build_grid ==
    LET axis == linspace(-SPACE_EXTENT, SPACE_EXTENT, GRID_POINTS)
    IN  meshgrid(axis, axis)

\* x_grid, y_grid of main(): built once, never assigned again.
x_grid == _build_grid[1]

y_grid == _build_grid[2]

\* Variant: the second mass mirrored in x only (a sign slip).
_mass_positions_mirrored(time_seconds) ==
    LET angular_velocity == Div(Mul(Lit(2, 1), Pi), ORBITAL_PERIOD)
        angle == Mul(angular_velocity, time_seconds)
        offset == ORBITAL_RADIUS
        first == <<Mul(offset, Cos(angle)), Mul(offset, Sin(angle))>>
        second == <<Mul(-offset, Cos(angle)), Mul(offset, Sin(angle))>>
    IN  <<first, second>>

_mass_positions(time_seconds) ==
    LET angular_velocity == Div(Mul(Lit(2, 1), Pi), ORBITAL_PERIOD)
        angle == Mul(angular_velocity, time_seconds)
        offset == ORBITAL_RADIUS
        first == <<Mul(offset, Cos(angle)), Mul(offset, Sin(angle))>>
        second == <<Mul(-offset, Cos(angle)), Mul(-offset, Sin(angle))>>
    IN  <<first, second>>

\* Variant: the squares added instead of subtracted.
polarization_at_sum(x_coord, y_coord) ==
    Div(Sq(x_coord) + Sq(y_coord), Sq(SPACE_EXTENT))

\* The polarization term of the single-point form.
polarization_at(x_coord, y_coord) ==
    Div(Sq(x_coord) - Sq(y_coord), Sq(SPACE_EXTENT))

_wave_displacement_at(x_coord, y_coord, time_seconds) ==
    LET radius == Sqrt(Sq(x_coord) + Sq(y_coord)) + Epsilon
        phase == Mul(WAVE_NUMBER, radius)
                   - Mul(Mul(Div(Mul(Lit(2, 1), Pi), ORBITAL_PERIOD), time_seconds),
                         WAVE_SPEED)
        polarization == polarization_at(x_coord, y_coord)
        envelope == Exp(Div(-Sq(radius), GAUSSIAN_FALLOFF))
    IN  Mul(Mul(Mul(WAVE_AMPLITUDE, Sin(phase)), polarization), envelope)

\* The polarization term of the grid form, element by element.
polarization_grid(xg, yg) ==
    [j \in DOMAIN xg |-> [i \in DOMAIN xg[j] |->
        Div(Sq(xg[j][i]) - Sq(yg[j][i]), Sq(SPACE_EXTENT))]]

\* Variant: the polarization divided by the extent, not by its square.
_wave_deformation_unsquared(xg, yg, time_seconds) ==
    LET r == [j \in DOMAIN xg |-> [i \in DOMAIN xg[j] |->
                 Sqrt(Sq(xg[j][i]) + Sq(yg[j][i])) + Epsilon]]
        phase == [j \in DOMAIN xg |-> [i \in DOMAIN xg[j] |->
                     Mul(WAVE_NUMBER, r[j][i])
                       - Mul(Mul(Div(Mul(Lit(2, 1), Pi), ORBITAL_PERIOD), time_seconds),
                             WAVE_SPEED)]]
        polarization == [j \in DOMAIN xg |-> [i \in DOMAIN xg[j] |->
                            Div(Sq(xg[j][i]) - Sq(yg[j][i]), SPACE_EXTENT)]]
        envelope == [j \in DOMAIN xg |-> [i \in DOMAIN xg[j] |->
                        Exp(Div(-Sq(r[j][i]), GAUSSIAN_FALLOFF))]]
    IN  [j \in DOMAIN xg |-> [i \in DOMAIN xg[j] |->
            Mul(Mul(Mul(WAVE_AMPLITUDE, Sin(phase[j][i])), polarization[j][i]),
                envelope[j][i])]]

_wave_deformation(xg, yg, time_seconds) ==
    LET r == [j \in DOMAIN xg |-> [i \in DOMAIN xg[j] |->
                 Sqrt(Sq(xg[j][i]) + Sq(yg[j][i])) + Epsilon]]
        phase == [j \in DOMAIN xg |-> [i \in DOMAIN xg[j] |->
                     Mul(WAVE_NUMBER, r[j][i])
                       - Mul(Mul(Div(Mul(Lit(2, 1), Pi), ORBITAL_PERIOD), time_seconds),
                             WAVE_SPEED)]]
        polarization == polarization_grid(xg, yg)
        envelope == [j \in DOMAIN xg |-> [i \in DOMAIN xg[j] |->
                        Exp(Div(-Sq(r[j][i]), GAUSSIAN_FALLOFF))]]
    IN  [j \in DOMAIN xg |-> [i \in DOMAIN xg[j] |->
            Mul(Mul(Mul(WAVE_AMPLITUDE, Sin(phase[j][i])), polarization[j][i]),
                envelope[j][i])]]

\* Variant: floor division, frame_index // FPS.
TimeOf_floor(frame_index) == (frame_index \div FPS) * Scale

\* frame_index / FPS
TimeOf(frame_index) == DivInt(frame_index * Scale, FPS)

(***************************************************************************)
(* Drawing: the 3D axes and the artists on it                              *)
(***************************************************************************)

\* Python's None in surface[0] / masses[0].
None == [kind |-> "none"]

\* Grid indices <<i, j>> at which a drawn field keeps its values: the model
\* keeps these samples of the GRID_POINTS x GRID_POINTS array an artist holds.
SurfaceSamples == {<<0, 10>>, <<39, 29>>, <<30, 45>>, <<59, 20>>}

SampleOf(z_grid) == [p \in SurfaceSamples |-> z_grid[p[2]][p[1]]]

\* Variant: the configuration is reset but the artists are kept.
clear_keep(ax) == [ax EXCEPT !.configured = FALSE]

\* ax.clear(): drops every artist and the axes configuration.
clear(ax) == [configured |-> FALSE, artists |-> <<>>]

_setup_axes(ax) == [ax EXCEPT !.configured = TRUE]

\* ax.plot_surface(x_grid, y_grid, z_grid, ...); id is the identity of the
\* new artist (the number of the renderer call that creates it).
plot_surface(z_grid, id) == [kind |-> "surface", id |-> id, z |-> SampleOf(z_grid)]

\* ax.scatter(xs, ys, zs, ...)
scatter(xs, ys, zs, id) ==
    [kind |-> "markers", id |-> id, xs |-> xs, ys |-> ys, zs |-> zs]

\* ax.contour(x_grid, y_grid, z_grid, ..., offset=-1.5)
contour(z_grid, id) == [kind |-> "contour", id |-> id, z |-> SampleOf(z_grid)]

add_artist(ax, artist) == [ax EXCEPT !.artists = Append(@, artist)]

\* Variant: the marker heights taken at time 0.0, as in init().
mass_z_stale(position, time_seconds) ==
    _wave_displacement_at(position[1], position[2], 0) + MASS_HEIGHT_OFFSET

\* first_z / second_z: the displacement at the mass's own position plus
\* the fixed offset.
mass_z(position, time_seconds) ==
    _wave_displacement_at(position[1], position[2], time_seconds) + MASS_HEIGHT_OFFSET

\* The scatter of the two masses at the given pair of positions.
scatter_masses(positions, time_seconds, id) ==
    scatter(<<positions[1][1], positions[2][1]>>,
            <<positions[1][2], positions[2][2]>>,
            <<mass_z(positions[1], time_seconds), mass_z(positions[2], time_seconds)>>,
            id)

\* The statements from _mass_positions(t) to ax.scatter(...).
draw_masses(time_seconds, id) ==
    scatter_masses(_mass_positions(time_seconds), time_seconds, id)

\* surface[0] = ax.plot_surface(...)
set_surface(s, artist) ==
    [s EXCEPT !.axes = add_artist(s.axes, artist), !.surface = artist]

\* masses[0] = ax.scatter(...)
set_masses(s, artist) ==
    [s EXCEPT !.axes = add_artist(s.axes, artist), !.masses = artist]

\* ax.contour(...): the result is not kept.
add_contour(s, artist) == [s EXCEPT !.axes = add_artist(s.axes, artist)]

\* The drawing statements of a frame callback, in source order; statement k
\* runs when the callback gets at least as far as k statements (k <= n).
stmt_clear(s, k, n) == IF k <= n THEN [s EXCEPT !.axes = clear(s.axes)] ELSE s

stmt_setup(s, k, n) == IF k <= n THEN [s EXCEPT !.axes = _setup_axes(s.axes)] ELSE s

stmt_surface(s, time_seconds, id, k, n) ==
    IF k <= n
    THEN set_surface(s, plot_surface(_wave_deformation(x_grid, y_grid, time_seconds), id))
    ELSE s

stmt_masses(s, time_seconds, id, k, n) ==
    IF k <= n THEN set_masses(s, draw_masses(time_seconds, id)) ELSE s

stmt_contour(s, time_seconds, id, k, n) ==
    IF k <= n
    THEN add_contour(s, contour(_wave_deformation(x_grid, y_grid, time_seconds), id))
    ELSE s

\* Number of drawing statements of init() and of update().
InitStatements == 4

UpdateStatements == 5

\* init(): the state s = [axes, surface, masses] after its first n
\* statements (n = InitStatements: init() has returned).  Every statement
\* uses the literal time 0.0.
init(s, n, id) ==
    stmt_masses(stmt_surface(stmt_setup(stmt_clear(s, 1, n), 2, n), 0, id, 3, n),
                0, id, 4, n)

\* update(frame_index): the state after its first n statements
\* (n = UpdateStatements: update() has returned).  time_seconds is computed
\* once and used by every statement; the contour uses the z_grid of the
\* surface.
update_at(s, time_seconds, n, id) ==
    stmt_contour(
        stmt_masses(
            stmt_surface(stmt_setup(stmt_clear(s, 1, n), 2, n), time_seconds, id, 3, n),
            time_seconds, id, 4, n),
        time_seconds, id, 5, n)

update(s, frame_index, n, id) == update_at(s, TimeOf(frame_index), n, id)

(***************************************************************************)
(* main()                                                                  *)
(***************************************************************************)

StartMessage == "Saving animation to OUTPUT_FILE"

DoneMessage == "Render complete."

\* The drawing state the frame callbacks read and write.
Drawing == [axes |-> axes, surface |-> surface, masses |-> masses]

\* The state before main() runs: the output directory may or may not exist.
Init ==
    /\ pc = "mkdir"
    /\ frame = 0
    /\ axes = [configured |-> FALSE, artists |-> <<>>]
    /\ surface = None
    /\ masses = None
    /\ encoder = "unopened"
    /\ written = <<>>
    /\ renders = <<>>
    /\ stdout = <<>>
    /\ dirExists \in BOOLEAN
    /\ file = "absent"
    /\ figure = "none"
    /\ failure = "none"
    /\ probe = [op |-> "none"]

\* An uncaught exception outside the save: the process ends.
Raise(kind) ==
    /\ failure' = kind
    /\ pc' = "failed"

\* OUTPUT_FILE.parent.mkdir(parents=True, exist_ok=True)
Mkdir ==
    /\ pc = "mkdir"
    /\ dirExists' = TRUE
    /\ pc' = "build"
    /\ UNCHANGED <<frame, axes, surface, masses, encoder, written, renders,
                   stdout, file, figure, failure, probe>>

\* mkdir raises (the parent is not writable, or a file is in the way).
MkdirFail ==
    /\ pc = "mkdir"
    /\ ~dirExists
    /\ Raise("mkdir")
    /\ UNCHANGED <<frame, axes, surface, masses, encoder, written, renders,
                   stdout, dirExists, file, figure, probe>>

\* The grid, the figure, the axes and its first _setup_axes, and the two
\* one-element lists.
Build ==
    /\ pc = "build"
    /\ figure' = "open"
    /\ axes' = _setup_axes([configured |-> FALSE, artists |-> <<>>])
    /\ surface' = None
    /\ masses' = None
    /\ pc' = "animate"
    /\ UNCHANGED <<frame, encoder, written, renders, stdout, dirExists, file,
                   failure, probe>>

\* FuncAnimation(fig, update, init_func=init, frames=TOTAL_FRAMES, ...) and
\* FFMpegWriter(...): objects only, nothing is drawn or opened yet.
CreateAnimation ==
    /\ pc = "animate"
    /\ frame' = 0
    /\ pc' = "announce"
    /\ UNCHANGED <<axes, surface, masses, encoder, written, renders, stdout,
                   dirExists, file, figure, failure, probe>>

\* print(f"Saving animation to {OUTPUT_FILE}")
Announce ==
    /\ pc = "announce"
    /\ stdout' = Append(stdout, StartMessage)
    /\ pc' = "open"
    /\ UNCHANGED <<frame, axes, surface, masses, encoder, written, renders,
                   dirExists, file, figure, failure, probe>>

\* anim.save: the writer's saving context is entered, the encoder process
\* is started.
OpenEncoder ==
    /\ pc = "open"
    /\ encoder' = "open"
    /\ pc' = "init_draw"
    /\ UNCHANGED <<frame, axes, surface, masses, written, renders, stdout,
                   dirExists, file, figure, failure, probe>>

\* The encoder cannot be started (no ffmpeg binary): the save raises before
\* the saving context is entered.
OpenEncoderFail ==
    /\ pc = "open"
    /\ Raise("open")
    /\ UNCHANGED <<frame, axes, surface, masses, encoder, written, renders,
                   stdout, dirExists, file, figure, probe>>

\* Variant: one frame too many.
AfterFrame_extra(i) == IF i <= TOTAL_FRAMES THEN "update" ELSE "finish"

\* Variant: the save returns from the loop without leaving the saving
\* context.
AfterFrame_skip(i) == IF i < TOTAL_FRAMES THEN "update" ELSE "done"

\* Where the frame loop of the save goes after frame index i is done.
AfterFrame(i) == IF i < TOTAL_FRAMES THEN "update" ELSE "finish"

\* An exception inside the saving context: the context's exit still runs
\* (pc = "finish") before the exception leaves main().
RaiseInSave(kind) ==
    /\ failure' = kind
    /\ pc' = "finish"

\* anim.save draws the initial frame: init() is called once, before the
\* frame loop.
InitDraw ==
    /\ pc = "init_draw"
    /\ LET id == Len(renders) + 1
           s == init(Drawing, InitStatements, id)
       IN  /\ axes' = s.axes
           /\ surface' = s.surface
           /\ masses' = s.masses
           /\ renders' = Append(renders, [fn |-> "init", t |-> 0, returned |-> TRUE])
    /\ pc' = AfterFrame(0)
    /\ UNCHANGED <<frame, encoder, written, stdout, dirExists, file, figure,
                   failure, probe>>

\* init() raises in its statement n + 1.
InitDrawFail ==
    /\ pc = "init_draw"
    /\ \E n \in 0 .. (InitStatements - 1) :
         LET id == Len(renders) + 1
             s == init(Drawing, n, id)
         IN  /\ axes' = s.axes
             /\ surface' = s.surface
             /\ masses' = s.masses
             /\ renders' = Append(renders, [fn |-> "init", t |-> 0, returned |-> FALSE])
    /\ RaiseInSave("render")
    /\ UNCHANGED <<frame, encoder, written, stdout, dirExists, file, figure, probe>>

\* The frame loop calls update(frame).
Update ==
    /\ pc = "update"
    /\ LET id == Len(renders) + 1
           s == update(Drawing, frame, UpdateStatements, id)
       IN  /\ axes' = s.axes
           /\ surface' = s.surface
           /\ masses' = s.masses
           /\ renders' = Append(renders, [fn |-> "update", index |-> frame,
                                          t |-> TimeOf(frame), returned |-> TRUE])
    /\ pc' = "grab"
    /\ UNCHANGED <<frame, encoder, written, stdout, dirExists, file, figure,
                   failure, probe>>

\* update(frame) raises in its statement n + 1.
UpdateFail ==
    /\ pc = "update"
    /\ \E n \in 0 .. (UpdateStatements - 1) :
         LET id == Len(renders) + 1
             s == update(Drawing, frame, n, id)
         IN  /\ axes' = s.axes
             /\ surface' = s.surface
             /\ masses' = s.masses
             /\ renders' = Append(renders, [fn |-> "update", index |-> frame,
                                            t |-> TimeOf(frame), returned |-> FALSE])
    /\ RaiseInSave("render")
    /\ UNCHANGED <<frame, encoder, written, stdout, dirExists, file, figure, probe>>

\* writer.grab_frame(): what the axes shows is piped to the encoder, and the
\* loop goes on to the next frame index.
GrabFrame ==
    /\ pc = "grab"
    /\ encoder = "open"
    /\ written' = Append(written, [index |-> frame, shot |-> axes.artists])
    /\ file' = "partial"
    /\ frame' = frame + 1
    /\ pc' = AfterFrame(frame + 1)
    /\ UNCHANGED <<axes, surface, masses, encoder, renders, stdout, dirExists,
                   figure, failure, probe>>

\* grab_frame raises (the encoder has died, the pipe is broken).
GrabFrameFail ==
    /\ pc = "grab"
    /\ RaiseInSave("write")
    /\ UNCHANGED <<frame, axes, surface, masses, encoder, written, renders,
                   stdout, dirExists, file, figure, probe>>

\* Variant: the exception is swallowed when the saving context is left.
AfterSave_swallow(fail) == "close_fig"

\* Where main() goes once the saving context has been left.
AfterSave(fail) == IF fail = "none" THEN "close_fig" ELSE "failed"

\* Variant: no exit handler, the encoder is closed on the normal path only.
Finish_normal_only ==
    /\ pc = "finish"
    /\ encoder' = IF failure = "none" THEN "closed" ELSE encoder
    /\ file' = IF failure = "none" /\ file = "partial" THEN "complete" ELSE file
    /\ pc' = AfterSave(failure)
    /\ UNCHANGED <<frame, axes, surface, masses, written, renders, stdout,
                   dirExists, figure, failure, probe>>

\* The exit of the saving context, writer.finish(): the encoder's input is
\* closed and the encoder waited for, on the normal path and on an
\* exception alike.  Nothing removes the output file.
Finish ==
    /\ pc = "finish"
    /\ encoder' = "closed"
    /\ file' = IF failure = "none" /\ file = "partial" THEN "complete" ELSE file
    /\ pc' = AfterSave(failure)
    /\ UNCHANGED <<frame, axes, surface, masses, written, renders, stdout,
                   dirExists, figure, failure, probe>>

\* writer.finish() raises after closing (the encoder exited with an error).
FinishFail ==
    /\ pc = "finish"
    /\ failure = "none"
    /\ encoder' = "closed"
    /\ Raise("finish")
    /\ UNCHANGED <<frame, axes, surface, masses, written, renders, stdout,
                   dirExists, file, figure, probe>>

\* plt.close(fig)
CloseFigure ==
    /\ pc = "close_fig"
    /\ figure' = "closed"
    /\ pc' = "report"
    /\ UNCHANGED <<frame, axes, surface, masses, encoder, written, renders,
                   stdout, dirExists, file, failure, probe>>

\* print("Render complete.")
Report ==
    /\ pc = "report"
    /\ stdout' = Append(stdout, DoneMessage)
    /\ pc' = "done"
    /\ UNCHANGED <<frame, axes, surface, masses, encoder, written, renders,
                   dirExists, file, figure, failure, probe>>

Next ==
    \/ Mkdir
    \/ MkdirFail
    \/ Build
    \/ CreateAnimation
    \/ Announce
    \/ OpenEncoder
    \/ OpenEncoderFail
    \/ InitDraw
    \/ InitDrawFail
    \/ Update
    \/ UpdateFail
    \/ GrabFrame
    \/ GrabFrameFail
    \/ Finish
    \/ FinishFail
    \/ CloseFigure
    \/ Report

Spec == Init /\ [][Next]_vars

\* The places main() can be at.
Places ==
    {"mkdir", "build", "animate", "announce", "open", "init_draw", "update",
     "grab", "finish", "close_fig", "report", "done", "failed"}

\* main() moves on: every step of Next changes pc, and some step of Next is
\* possible at every place but "done" and "failed".
Run ==
    /\ pc \notin {"done", "failed"}
    /\ pc' \in Places \ {pc}

\* main() is one thread that runs until it returns or raises.
FairSpec == Spec /\ WF_pc(Run)

(***************************************************************************)
(* The numeric helpers applied to sample inputs                            *)
(***************************************************************************)

\* Frame indices whose time sample the field is evaluated at on the grid.
MaxProbeFrame == 2

\* Times the mass trajectory is evaluated at: every frame's time sample and
\* three times that are no frame's.
MassTimes ==
    {TimeOf(f) : f \in 0 .. (TOTAL_FRAMES - 1)}
        \cup {-Lit(1, 3), Lit(7, 1) + 1, Lit(DURATION, 1)}

\* Times the field is evaluated at.
FieldTimes == {TimeOf(f) : f \in 0 .. MaxProbeFrame} \cup {Lit(7, 1) + 1}

\* Coordinates used for points with |x| = |y|.
DiagonalCoords ==
    {x_grid[0][i] : i \in Indices} \cup {0, Lit(2, 1), -ORBITAL_RADIUS}

\* A 1 x 1 array holding v.
Single(v) == <<<<v>>>>

Idle ==
    /\ probe.op = "none"
    /\ UNCHANGED <<pc, frame, axes, surface, masses, encoder, written, renders,
                   stdout, dirExists, file, figure, failure>>

\* _mass_positions(t)
ProbeMass ==
    /\ Idle
    /\ \E t \in MassTimes :
         probe' = [op |-> "mass", t |-> t, positions |-> _mass_positions(t)]

\* Both forms of the wave field at grid point [j][i].
ProbePoint ==
    /\ Idle
    /\ \E i \in Indices, j \in Indices, t \in FieldTimes :
         probe' = [op |-> "point", i |-> i, j |-> j, t |-> t,
                   x |-> x_grid[j][i], y |-> y_grid[j][i],
                   grid |-> _wave_deformation(x_grid, y_grid, t)[j][i],
                   point |-> _wave_displacement_at(x_grid[j][i], y_grid[j][i], t)]

\* Both forms of the wave field and of its polarization term at a point
\* (x, y) with y = x or y = -x.
ProbeDiagonal ==
    /\ Idle
    /\ \E x \in DiagonalCoords, t \in FieldTimes : \E y \in {x, -x} :
         /\ Abs(x) = Abs(y)
         /\ probe' = [op |-> "diagonal", t |-> t, x |-> x, y |-> y,
                      polarization |-> polarization_at(x, y),
                      polarization_g |-> polarization_grid(Single(x), Single(y))[1][1],
                      grid |-> _wave_deformation(Single(x), Single(y), t)[1][1],
                      point |-> _wave_displacement_at(x, y, t)]

FieldNext ==
    \/ ProbeMass
    \/ ProbePoint
    \/ ProbeDiagonal

FieldSpec == Init /\ [][FieldNext]_vars

(***************************************************************************)
(* Properties                                                              *)
(***************************************************************************)

Last(seq) == seq[Len(seq)]

Range(seq) == {seq[k] : k \in 1 .. Len(seq)}

\* The most recent call of a frame callback has returned.
RendererReturned == renders # <<>> /\ Last(renders).returned

\* The kinds of the artists on the axes, in drawing order.
Kinds(artists) == [k \in 1 .. Len(artists) |-> artists[k].kind]

IsPrefix(a, b) == Len(a) <= Len(b) /\ \A k \in 1 .. Len(a) : a[k] = b[k]

FullFrame == <<"surface", "markers", "contour">>

\* t is frame_index / FPS, to the rounding of the division.
IsTimeOf(t, frame_index) == Abs(t * FPS - frame_index * Scale) <= FPS

\* The phases of the driver, by the place main() is at.
Phase(p) ==
    CASE p \in {"mkdir", "build", "animate", "announce", "open"} -> "Initializing"
      [] p \in {"init_draw", "update", "grab"} -> "Rendering"
      [] p \in {"finish", "close_fig", "report"} -> "Flushing"
      [] p = "done" -> "Done"
      [] p = "failed" -> "Failed"

PhaseRank(p) ==
    CASE Phase(p) = "Initializing" -> 0
      [] Phase(p) = "Rendering" -> 1
      [] Phase(p) = "Flushing" -> 2
      [] Phase(p) = "Done" -> 3
      [] Phase(p) = "Failed" -> 4

\* C1: in a run that has completed, the number of frames rendered by
\* update and handed to the encoder is exactly FPS * DURATION = 360.
C1_FrameCount ==
    pc = "done" =>
        /\ FPS * DURATION = 360
        /\ Len(written) = 360
        /\ Cardinality({k \in 1 .. Len(renders) : renders[k].fn = "update"}) = 360
        /\ \A k \in 1 .. Len(written) : written[k].index = k - 1

C1_Witness == pc = "done" /\ Len(written) = TOTAL_FRAMES /\ failure = "none"

\* C2 as stated: every renderer call's time sample is strictly greater than
\* that of the call before it, and a completed run has made exactly one call
\* per frame index.
C2_Original ==
    /\ \A k \in 2 .. Len(renders) : renders[k].t > renders[k - 1].t
    /\ pc = "done" => Len(renders) = TOTAL_FRAMES

\* C2, amended: the calls are one initial draw init() at time 0, then
\* update(0), update(1), ... in index order, each at frame_index / FPS; the
\* time samples of the update calls are strictly increasing, the time sample
\* of update(0) equals that of the initial draw; a call is made only after
\* the call before it has returned; a completed run has made
\* TOTAL_FRAMES update calls and TOTAL_FRAMES + 1 calls in all.
C2_RenderOrder ==
    /\ renders # <<>> => renders[1].fn = "init" /\ renders[1].t = 0
    /\ \A k \in 2 .. Len(renders) :
         /\ renders[k].fn = "update"
         /\ renders[k].index = k - 2
         /\ IsTimeOf(renders[k].t, k - 2)
         /\ renders[k - 1].returned
         /\ IF k = 2 THEN renders[k].t = renders[k - 1].t
            ELSE renders[k].t > renders[k - 1].t
    /\ pc = "done" => Len(renders) = TOTAL_FRAMES + 1

C2_Witness ==
    /\ Len(renders) = TOTAL_FRAMES + 1
    /\ Last(renders).index = TOTAL_FRAMES - 1
    /\ Last(renders).t > renders[TOTAL_FRAMES].t

\* What holds of the encoder and of the written frames in every state.
C3_StateOk ==
    /\ renders # <<>> => encoder # "unopened"
    /\ written # <<>> => encoder # "unopened"
    /\ \A k \in 1 .. Len(written) :
         /\ written[k].index = k - 1
         /\ written[k].shot # <<>>
         /\ written[k].shot[1].id = k + 1
    /\ pc \in {"close_fig", "report", "done"} =>
         encoder = "closed" /\ Len(written) = TOTAL_FRAMES
    /\ (pc = "failed" /\ failure \notin {"mkdir", "open"}) => encoder = "closed"

\* What holds of the encoder and of the written frames in every step.
C3_StepOk ==
    /\ written' # written =>
         /\ encoder = "open" /\ encoder' = "open"
         /\ written' = Append(written, Last(written'))
    /\ encoder = "closed" => encoder' = "closed" /\ written' = written
    /\ encoder' = "open" /\ encoder # "open" => renders = <<>> /\ written = <<>>

\* C3: the encoder is open before the first renderer call; frames are
\* written in index order, one per frame, each showing the update call of
\* its index, and only while the encoder is open; once closed the encoder
\* stays closed; whenever the run ends after the encoder was opened, on the
\* normal path or on a failure, the encoder is closed.
C3_EncoderScoped == [](C3_StateOk) /\ [][C3_StepOk]_vars

C3_Witness ==
    /\ pc = "failed"
    /\ failure = "render"
    /\ encoder = "closed"
    /\ Len(written) > 1

\* What holds of the phase and of the frame index in every step.
C4_StepOk ==
    /\ \/ pc' = "failed"
       \/ PhaseRank(pc') = PhaseRank(pc)
       \/ PhaseRank(pc') = PhaseRank(pc) + 1
    /\ frame' \in {frame, frame + 1}
    /\ frame' # frame => Phase(pc) = "Rendering"
    /\ pc # "done"

\* What holds of the phase and of the frame index in every state.
C4_StateOk ==
    /\ frame \in 0 .. TOTAL_FRAMES
    /\ pc = "update" => frame < TOTAL_FRAMES
    /\ Phase(pc) = "Initializing" => renders = <<>> /\ written = <<>>
    /\ pc = "done" => Len(written) = TOTAL_FRAMES /\ frame = TOTAL_FRAMES

\* C4: every step keeps the phase or moves it to the next one of
\* Initializing, Rendering, Flushing, Done (or ends the run as Failed); while
\* Rendering the frame index stays in 0 .. TOTAL_FRAMES and rises by one at
\* a time; a run in which nothing fails reaches Done, with TOTAL_FRAMES
\* frames written; and no step is taken from Done.
C4_Phases ==
    /\ [][C4_StepOk]_vars
    /\ [](C4_StateOk)
    /\ ([](failure = "none")) => <>(pc = "done")

C4_Witness == pc = "done" /\ frame = TOTAL_FRAMES /\ Len(renders) > TOTAL_FRAMES

\* What holds of a failure and of the messages in every state.
C5_StateOk ==
    /\ pc = "failed" <=> (failure # "none" /\ pc # "finish")
    /\ failure # "none" => DoneMessage \notin Range(stdout)
    /\ failure \in {"render", "write"} => encoder # "unopened"
    /\ DoneMessage \in Range(stdout) =>
         /\ stdout = <<StartMessage, DoneMessage>>
         /\ Len(written) = TOTAL_FRAMES
         /\ encoder = "closed"
         /\ file = "complete"
         /\ failure = "none"

\* What holds of a failure in every step.
C5_StepOk ==
    /\ pc # "failed"
    /\ failure # "none" =>
         /\ pc' = "failed"
         /\ failure' = failure
         /\ renders' = renders
         /\ written' = written
         /\ stdout' = stdout
         /\ file' = file
         /\ frame' = frame

\* C5: once a step has failed the run only leaves the save and ends as
\* failed: nothing more is rendered, written or printed, the output file is
\* left as it is, the failure is never cleared, and no step is taken from
\* the failed state; the completion message is printed only after the start
\* message and after all frames were saved and the encoder closed without a
\* failure.
C5_FatalFailure == [](C5_StateOk) /\ [][C5_StepOk]_vars

C5_Witness ==
    /\ pc = "failed"
    /\ failure = "write"
    /\ file = "partial"
    /\ Len(written) > 0
    /\ stdout = <<StartMessage>>

\* Tolerance of the magnitude of a mass position (1e-5).
MagnitudeTol == Lit(1, 100000)

\* The tolerance 1e-6 of the end-to-end scenario.
ScenarioTol == Lit(1, 1000000)

\* C6: at every time the two mass positions sum to the zero vector and
\* each lies at distance ORBITAL_RADIUS from the origin, within tolerance.
C6_Antipodal ==
    probe.op = "mass" =>
        LET first == probe.positions[1]
            second == probe.positions[2]
        IN  /\ first[1] + second[1] = 0
            /\ first[2] + second[2] = 0
            /\ Abs(Sqrt(Sq(first[1]) + Sq(first[2])) - ORBITAL_RADIUS) <= MagnitudeTol
            /\ Abs(Sqrt(Sq(second[1]) + Sq(second[2])) - ORBITAL_RADIUS) <= MagnitudeTol

C6_Witness ==
    /\ probe.op = "mass"
    /\ probe.t = TimeOf(7)
    /\ probe.positions[1][1] > 0
    /\ probe.positions[1][2] > 0
    /\ probe.positions[2][2] < 0

\* C7: at every point with |x| = |y| and every time, the polarization term
\* is zero and so is the displacement, in the single-point form and in the
\* grid form.
C7_DiagonalZero ==
    /\ probe.op = "diagonal" =>
         /\ probe.polarization = 0
         /\ probe.polarization_g = 0
         /\ probe.point = 0
         /\ probe.grid = 0
    /\ (probe.op = "point" /\ Abs(probe.x) = Abs(probe.y)) =>
         probe.point = 0 /\ probe.grid = 0

C7_Witness ==
    /\ probe.op = "diagonal"
    /\ probe.x = Lit(2, 1)
    /\ probe.y = -Lit(2, 1)
    /\ probe.t > 0
    /\ probe.grid = 0

\* Grid column i and row j are those nearest to the point (x, y).
IsNearest(i, j, x, y) ==
    \A k \in Indices :
        /\ Abs(x_grid[0][i] - x) <= Abs(x_grid[0][k] - x)
        /\ Abs(y_grid[j][0] - y) <= Abs(y_grid[k][0] - y)

\* amplitude * sin(k * r) * (x^2 - y^2) / extent^2 * exp(-r^2 / falloff)
\* with r = sqrt(x^2 + y^2) + 1e-6: the reference value at t = 0.
ReferenceValue(x, y) ==
    LET r == Sqrt(Sq(x) + Sq(y)) + Lit(1, 1000000)
    IN  Mul(Mul(Mul(Lit(6, 10), Sin(Mul(Lit(2, 1), r))),
                Div(Sq(x) - Sq(y), Sq(Lit(6, 1)))),
            Exp(Div(-Sq(r), Lit(18, 1))))

\* The grid point of a probe is the one nearest to (2.0, 0.0), at t = 0.
AtScenarioPoint ==
    /\ probe.op = "point"
    /\ probe.t = 0
    /\ IsNearest(probe.i, probe.j, Lit(2, 1), 0)

\* C8 as stated: the grid value at the grid point nearest to (2.0, 0.0)
\* equals the reference value at (2.0, 0.0) within 1e-6.
C8_Original ==
    AtScenarioPoint => Abs(probe.grid - ReferenceValue(Lit(2, 1), 0)) <= ScenarioTol

\* C8, amended: the grid point nearest to (2.0, 0.0) is column 39 of row 29
\* or 30, at x = -6 + 39 * 12/59 and |y| = 6/59, not at (2.0, 0.0); the grid
\* value there equals the reference value evaluated at that grid point's own
\* coordinates within 1e-6, and differs from the reference value at
\* (2.0, 0.0) by more than 1e-3.
C8_GridValue ==
    AtScenarioPoint =>
        /\ probe.i = 39
        /\ probe.j \in {29, 30}
        /\ Abs(probe.x - (Lit(39 * 12, 59) - Lit(6, 1))) <= Lit(1, 10000)
        /\ Abs(Abs(probe.y) - Lit(6, 59)) <= Lit(1, 10000)
        /\ Abs(probe.grid - ReferenceValue(probe.x, probe.y)) <= ScenarioTol
        /\ Abs(probe.grid - ReferenceValue(Lit(2, 1), 0)) > Lit(1, 1000)

C8_Witness == AtScenarioPoint /\ probe.grid # 0

\* C9 as stated: after every renderer call that has returned, the initial
\* draw included, the axes holds exactly a surface, a marker set and a
\* contour, in that order, all drawn by that call.
C9_Original ==
    RendererReturned =>
        /\ axes.configured
        /\ Kinds(axes.artists) = FullFrame
        /\ \A k \in 1 .. Len(axes.artists) : axes.artists[k].id = Len(renders)

\* C9, amended: a renderer call draws in the order clear and configure,
\* surface, markers, contour; after update() has returned the axes is
\* configured and holds exactly a surface, a marker set and a contour of the
\* same field, all drawn by that call; after the initial draw init() has
\* returned it holds exactly a surface and a marker set drawn by that call,
\* and no contour.
C9_FullRedraw ==
    /\ IsPrefix(Kinds(axes.artists), FullFrame)
    /\ RendererReturned =>
         /\ axes.configured
         /\ \A k \in 1 .. Len(axes.artists) : axes.artists[k].id = Len(renders)
         /\ IF Last(renders).fn = "update"
            THEN /\ Kinds(axes.artists) = FullFrame
                 /\ axes.artists[3].z = axes.artists[1].z
            ELSE Kinds(axes.artists) = <<"surface", "markers">>

C9_Witness ==
    /\ RendererReturned
    /\ Len(renders) = 3
    /\ Kinds(axes.artists) = FullFrame
    /\ axes.artists[1].id = 3

\* C10: after every renderer call that has returned, with t the call's one
\* time sample (frame_index / FPS for update): the surface is the field at
\* t, the markers are at the mass positions at t, each marker's height is
\* the offset plus the displacement at the marker's own position at t,
\* computed here by the grid form of the field, and surface[0] and masses[0]
\* are the surface and the markers of that call; before the first call both
\* are None; and every written frame shows the update call of its index.
C10_OneTimeSample ==
    /\ renders = <<>> => surface = None /\ masses = None
    /\ RendererReturned =>
         LET call == Last(renders)
             surf == axes.artists[1]
             mark == axes.artists[2]
         IN  /\ call.fn = "update" => IsTimeOf(call.t, call.index)
             /\ surf.z = SampleOf(_wave_deformation(x_grid, y_grid, call.t))
             /\ <<mark.xs[1], mark.ys[1]>> = _mass_positions(call.t)[1]
             /\ <<mark.xs[2], mark.ys[2]>> = _mass_positions(call.t)[2]
             /\ \A m \in 1 .. 2 :
                  mark.zs[m] = Lit(9, 10)
                      + _wave_deformation(Single(mark.xs[m]), Single(mark.ys[m]),
                                          call.t)[1][1]
             /\ surface = surf
             /\ masses = mark
             /\ surf.id = Len(renders)
             /\ mark.id = Len(renders)
    /\ written # <<>> =>
         /\ Last(written).shot[1].id = Last(written).index + 2
         /\ Last(written).shot[2].id = Last(written).index + 2

C10_Witness ==
    /\ pc = "grab"
    /\ frame = 7
    /\ masses.zs[1] # MASS_HEIGHT_OFFSET
    /\ surface = axes.artists[1]

====
